---------------------------- MODULE Spec2Model ----------------------------
(* A model of the energy-wise forecasting pipeline:                        *)
(*   - serving: lifespan (artifact loading) and ForecastService.forecast   *)
(*     with its two paths, _xgboost_forecast and _prophet_forecast;        *)
(*   - training: train.main, train_prophet, train_xgboost, save_pickle.    *)
(* Instants are whole minutes since 2023-01-01T00:00Z (DEFAULT_START_DATE, *)
(* a Sunday); the calendar operators are exact within the year 2023.       *)
(* Positions are 1-based: position i here is pandas position i - 1.        *)
EXTENDS Integers, Sequences, FiniteSets, TLC

VARIABLES
    store,    \* MODELS_DIR: file name -> file content
    clock,    \* the wall clock, datetime.now(tz=UTC)
    svc,      \* app.py's forecast_service: the ForecastService, or None
    resp,     \* the outcome of the last ForecastService.forecast call
    csv,      \* APPLIANCES_CSV: the raw dataset on disk
    data,     \* train.main: the prepared record (data.dataframe)
    pc,       \* train.main: the step the run is at
    prophet,  \* the outcome of train_prophet
    xgb,      \* the outcome of train_xgboost
    err,      \* the exception that ended the training run, or "none"
    http,     \* app.py: the answer to the last request of an endpoint
    again     \* the record returned by preparing the prepared record again

vars == <<store, clock, svc, resp, csv, data, pc, prophet, xgb, err, http, again>>

-----------------------------------------------------------------------------
(* Bounds of the model. *)

MaxHorizon == 3      \* horizons HorizonMin..MaxHorizon, the default and HorizonMax
MaxTicks == 1        \* minutes the clock may advance from a starting instant
MaxElapsed == 1      \* minutes that may pass between two reads of the clock
Slack == 2           \* record lengths within Slack of each boundary length

-----------------------------------------------------------------------------
(* Program constants. *)

HorizonMin == 1
HorizonMax == 168
HorizonDefault == 24
VALIDATION_DAYS == 30
VALIDATION_HOURS == VALIDATION_DAYS * 24
LAG_FEATURES == <<1, 24, 168>>
TEMPORAL_FEATURES == <<"hour", "day_of_week", "month">>
SENSOR_FEATURES ==
    << "lights", "T1", "RH_1", "T2", "RH_2", "T3", "RH_3", "T4", "RH_4",
       "T5", "RH_5", "T6", "RH_6", "T7", "RH_7", "T8", "RH_8", "T9", "RH_9",
       "T_out", "Press_mm_hg", "RH_out", "Windspeed", "Visibility",
       "Tdewpoint" >>
DATE_COLUMN == "date"
TARGET_COLUMN == "Appliances"
MODEL_XGBOOST == "XGBoost"
MODEL_PROPHET == "Prophet"
MinutesPerHour == 60     \* FREQUENCY = "h" and timedelta(hours=1), in minutes

-----------------------------------------------------------------------------
(* Generic helpers. *)

Range(s) == {s[i] : i \in DOMAIN s}

Max(a, b) == IF a >= b THEN a ELSE b

Min(a, b) == IF a <= b THEN a ELSE b

RECURSIVE SeqSum(_)
SeqSum(s) == IF s = <<>> THEN 0 ELSE Head(s) + SeqSum(Tail(s))

\* [x for x in s if x in S]: the order of s is kept.
RECURSIVE Filter(_, _)
Filter(s, S) ==
    IF s = <<>> THEN <<>>
    ELSE IF Head(s) \in S THEN <<Head(s)>> \o Filter(Tail(s), S)
         ELSE Filter(Tail(s), S)

\* A slice bound as Python normalises it: a negative bound counts from the
\* end, and the result is clamped to 0..len.
PyIndex(len, k) == IF k < 0 THEN Max(len + k, 0) ELSE Min(k, len)

\* Python's seq[a:b] (iloc[a:b]).
PySlice(s, a, b) == SubSeq(s, PyIndex(Len(s), a) + 1, PyIndex(Len(s), b))

\* Python's seq[:k] (iloc[:k]).
PySliceTo(s, k) == SubSeq(s, 1, PyIndex(Len(s), k))

\* Python's seq[k:] (iloc[k:]).
PySliceFrom(s, k) == SubSeq(s, PyIndex(Len(s), k) + 1, Len(s))

\* Mutant of PdTail: .head(n), the first n rows.
PdTail_Head(s, n) == SubSeq(s, 1, Min(n, Len(s)))

\* pandas' .tail(n) for n >= 0: the last n rows (all of them if fewer).
PdTail(s, n) == SubSeq(s, Max(Len(s) - n, 0) + 1, Len(s))

-----------------------------------------------------------------------------
(* The calendar of datetime / pandas .dt, within 2023. *)

CumDays == <<0, 31, 59, 90, 120, 151, 181, 212, 243, 273, 304, 334, 365>>

DayOfYear(t) == (t \div (24 * MinutesPerHour)) % CumDays[13]

Hour(t) == (t \div MinutesPerHour) % 24

\* datetime.weekday(): Monday is 0; 2023-01-01 was a Sunday (6).
Weekday(t) == ((t \div (24 * MinutesPerHour)) + 6) % 7

Month(t) == CHOOSE m \in 1..12 : CumDays[m] <= DayOfYear(t) /\ DayOfYear(t) < CumDays[m + 1]

DayOfMonth(t) == DayOfYear(t) - CumDays[Month(t)] + 1

\* datetime.isoformat(): the instant written out in calendar fields.
IsoFormat(t) ==
    [month |-> Month(t), day |-> DayOfMonth(t), hour |-> Hour(t),
     minute |-> t % MinutesPerHour]

\* The instant an ISO-8601 text of 2023 names.
FromIso(r) ==
    ((CumDays[r.month] + r.day - 1) * 24 + r.hour) * MinutesPerHour + r.minute

AddHours(t, h) == t + h * MinutesPerHour

-----------------------------------------------------------------------------
(* Artifacts. Each is a record with a kind; None is Python's None. *)

None == [kind |-> "None"]

\* Python truthiness of an artifact: None and the empty list are falsy.
Truthy(a) == a.kind # "None" /\ (a.kind = "list" => a.names # <<>>)


\* A Python dict: insertion-ordered keys and their values.
DictFromKeys(names, v) == [keys |-> names, vals |-> [k \in Range(names) |-> v]]

\* d[k] = v: an existing key keeps its place, a new key is appended.
DictSet(d, k, v) ==
    [keys |-> IF k \in Range(d.keys) THEN d.keys ELSE Append(d.keys, k),
     vals |-> (k :> v) @@ d.vals]

\* pd.DataFrame(list of dicts)[names]: the columns named, in the order named.
FrameSelect(dicts, names) ==
    [columns |-> names,
     data |-> [i \in DOMAIN dicts |-> [j \in DOMAIN names |-> dicts[i].vals[names[j]]]]]

-----------------------------------------------------------------------------
(* The fitted models, as far as serving reads them. What a fitted model    *)
(* predicts is opaque to the program; these operators fix one function per *)
(* model, of either sign.                                                  *)

\* StandardScaler.transform on one row: each column shifted by the fitted mean.
ScalerTransform(scaler, row) == [j \in DOMAIN row |-> row[j] - scaler.mean]

\* XGBRegressor.predict on one (scaled) row.
XgbPredict(model, row) == SeqSum(row) - model.bias

\* Prophet's yhat at instant t.
ProphetYhat(model, t) == model.slope * Hour(t) - model.offset

\* Prophet.make_future_dataframe(periods, freq="h"): the history dates, then
\* `periods` hourly instants after the last of them.
MakeFutureDataframe(model, periods) ==
    LET last == model.history_dates[Len(model.history_dates)]
    IN  model.history_dates \o [i \in 1..periods |-> AddHours(last, i)]

\* Mutant of ClipNonNegative: the raw predictions returned unclipped.
ClipNonNegative_NoClip(values) == values

\* np.maximum(values, 0).tolist()
ClipNonNegative(values) == [i \in DOMAIN values |-> Max(values[i], 0)]

-----------------------------------------------------------------------------
(* ForecastService (src/api/service.py). *)

\* Mutant of ServeFeatures: every column starts from the hour, not from 0.
ServeFeatures_Fill(feature_names, future_time) ==
    LET f0 == DictFromKeys(feature_names, Hour(future_time))
        f1 == DictSet(f0, "day_of_week", Weekday(future_time))
    IN  DictSet(f1, "month", Month(future_time))

\* The feature dict of one future hour.
ServeFeatures(feature_names, future_time) ==
    LET f0 == DictFromKeys(feature_names, 0)
        f1 == DictSet(f0, "hour", Hour(future_time))
        f2 == DictSet(f1, "day_of_week", Weekday(future_time))
    IN  DictSet(f2, "month", Month(future_time))

\* The instant whose calendar fields fill the i-th feature row, i in range(horizon).
FeatureTime(now, i) == AddHours(now, i)

\* X of _xgboost_forecast: one row per i in range(horizon).
ServeFrame(s, horizon, now) ==
    FrameSelect([k \in 1..horizon |-> ServeFeatures(s.feature_names.names, FeatureTime(now, k - 1))],
                s.feature_names.names)

\* _xgboost_forecast from X on: scaling if a scaler is held, one batch predict.
XgbRaw(s, X) ==
    LET scaled == IF Truthy(s.xgb_scaler)
                  THEN [i \in DOMAIN X.data |-> ScalerTransform(s.xgb_scaler, X.data[i])]
                  ELSE X.data
    IN  [i \in DOMAIN scaled |-> XgbPredict(s.xgb_model, scaled[i])]

\* _prophet_forecast before clipping: the last `horizon` rows of the prediction
\* over the extended frame.
ProphetRaw(s, horizon) ==
    LET future == MakeFutureDataframe(s.prophet_model, horizon)
        yhat == [i \in DOMAIN future |-> ProphetYhat(s.prophet_model, future[i])]
    IN  PdTail(yhat, horizon)

\* Mutant of Timestamps: range(horizon), the first timestamp being now.
Timestamps_FromNow(now, horizon) == [k \in 1..horizon |-> IsoFormat(AddHours(now, k - 1))]

\* The timestamps of forecast: range(1, horizon + 1) hours after now.
Timestamps(now, horizon) == [k \in 1..horizon |-> IsoFormat(AddHours(now, k))]

NoFrame == [columns |-> <<>>, data |-> <<>>]

\* forecast raising ValueError: the requested family is not available.
Unavailable(horizon, use_xgboost) ==
    [status |-> "ValueError", horizon |-> horizon, use_xgboost |-> use_xgboost,
     values |-> <<>>, timestamps |-> <<>>, model_name |-> "",
     predicted_by |-> "", raw |-> <<>>, X |-> NoFrame, now_features |-> 0, now |-> 0]

\* Mutant of ServiceForecast: a request for an absent family is served by
\* the other family when that one is loaded.
ServiceForecast_Fallback(s, horizon, use_xgboost, now1, now2) ==
    LET xgbReady == Truthy(s.xgb_model) /\ Truthy(s.feature_names)
        useXgb == IF use_xgboost THEN xgbReady \/ ~Truthy(s.prophet_model)
                  ELSE xgbReady /\ ~Truthy(s.prophet_model)
    IN  IF useXgb
        THEN IF ~xgbReady THEN Unavailable(horizon, use_xgboost)
             ELSE LET X == ServeFrame(s, horizon, now1)
                      raw == XgbRaw(s, X)
                  IN  [status |-> "ok", horizon |-> horizon, use_xgboost |-> use_xgboost,
                       values |-> ClipNonNegative(raw),
                       timestamps |-> Timestamps(now2, horizon),
                       model_name |-> MODEL_XGBOOST,
                       predicted_by |-> "XGBRegressor.predict",
                       raw |-> raw, X |-> X, now_features |-> now1, now |-> now2]
        ELSE IF ~Truthy(s.prophet_model) THEN Unavailable(horizon, use_xgboost)
             ELSE LET raw == ProphetRaw(s, horizon)
                  IN  [status |-> "ok", horizon |-> horizon, use_xgboost |-> use_xgboost,
                       values |-> ClipNonNegative(raw),
                       timestamps |-> Timestamps(now2, horizon),
                       model_name |-> MODEL_PROPHET,
                       predicted_by |-> "Prophet.predict",
                       raw |-> raw, X |-> NoFrame, now_features |-> 0, now |-> now2]

\* ForecastService.forecast(horizon, use_xgboost), the clock read as now1 in
\* _xgboost_forecast and as now2 for the timestamps. predicted_by, raw, X,
\* now_features and now record what the call computed on the way: the
\* predict call that produced the values, its raw output, the feature frame
\* and the two clock reads.
ServiceForecast(s, horizon, use_xgboost, now1, now2) ==
    IF use_xgboost
    THEN IF ~Truthy(s.xgb_model) \/ ~Truthy(s.feature_names)
         THEN Unavailable(horizon, use_xgboost)
         ELSE LET X == ServeFrame(s, horizon, now1)
                  raw == XgbRaw(s, X)
              IN  [status |-> "ok", horizon |-> horizon, use_xgboost |-> use_xgboost,
                   values |-> ClipNonNegative(raw),
                   timestamps |-> Timestamps(now2, horizon),
                   model_name |-> MODEL_XGBOOST,
                   predicted_by |-> "XGBRegressor.predict",
                   raw |-> raw, X |-> X, now_features |-> now1, now |-> now2]
    ELSE IF ~Truthy(s.prophet_model)
         THEN Unavailable(horizon, use_xgboost)
         ELSE LET raw == ProphetRaw(s, horizon)
              IN  [status |-> "ok", horizon |-> horizon, use_xgboost |-> use_xgboost,
                   values |-> ClipNonNegative(raw),
                   timestamps |-> Timestamps(now2, horizon),
                   model_name |-> MODEL_PROPHET,
                   predicted_by |-> "Prophet.predict",
                   raw |-> raw, X |-> NoFrame, now_features |-> 0, now |-> now2]

-----------------------------------------------------------------------------
(* The artifact store and its loading (src/utils/model_loader.py). *)

Absent == [state |-> "absent"]
Corrupt == [state |-> "corrupt"]
Stored(obj) == [state |-> "ok", obj |-> obj]

FileNames == {"xgb_model.pkl", "xgb_scaler.pkl", "feature_names.pkl", "prophet_model.pkl"}

\* Mutant of load_model_from_pickle: a file that fails to deserialize is
\* handed on as whatever was read of it.
load_model_from_pickle_Unchecked(file) ==
    IF file.state = "absent" THEN None
    ELSE IF file.state = "corrupt" THEN [kind |-> "partial"]
    ELSE file.obj

\* load_model_from_pickle: None for a missing file or a failed pickle.load.
load_model_from_pickle(file) ==
    IF file.state = "absent" THEN None
    ELSE IF file.state = "corrupt" THEN None
    ELSE file.obj

\* lifespan: load_xgboost_model and load_prophet_model, then ForecastService(...).
LoadService(st) ==
    [kind |-> "ForecastService",
     xgb_model |-> load_model_from_pickle(st["xgb_model.pkl"]),
     xgb_scaler |-> load_model_from_pickle(st["xgb_scaler.pkl"]),
     prophet_model |-> load_model_from_pickle(st["prophet_model.pkl"]),
     feature_names |-> load_model_from_pickle(st["feature_names.pkl"])]

-----------------------------------------------------------------------------
(* Data frames. A cell is <<v>> for a value v and <<>> for NaN / NaT; a    *)
(* row carries its pandas index label and its cells by column name.        *)

NaN == <<>>

IsNaN(cell) == cell = <<>>

\* The largest lag offset.
MaxLag == LAG_FEATURES[Len(LAG_FEATURES)]

\* f"lag_{lag}" for the k-th entry of LAG_FEATURES.
LAG_NAMES == <<"lag_1", "lag_24", "lag_168">>

\* Mutant of Shift: the first value fills the positions with nothing lag
\* rows earlier.
Shift_Fill(rows, col, lag, i) == rows[Max(i - lag, 1)].cells[col]

\* Series.shift(lag) read at position i: the value lag rows earlier, NaN
\* where there is none.
Shift(rows, col, lag, i) == IF i - lag >= 1 THEN rows[i - lag].cells[col] ELSE NaN

\* DataFrame.dropna(): the rows with no NaN in any column, index labels kept.
DropNa(rows) ==
    SelectSeq(rows, LAMBDA r : \A c \in DOMAIN r.cells : ~IsNaN(r.cells[c]))

-----------------------------------------------------------------------------
(* The raw dataset and its preparation (src/utils/data_loader.py). *)

\* The target observed at row i of a generated dataset: distinct per row.
TargetAt(i) == 10 + i

\* The instant of row i of a dataset sampled every p.step minutes from
\* p.start, with one interval skipped after row p.gapAt and one instant
\* repeated after row p.dupAt (0: none).
InstantAt(p, i) ==
    p.start + p.step * ((i - 1) + (IF p.gapAt > 0 /\ i > p.gapAt THEN 1 ELSE 0)
                                - (IF p.dupAt > 0 /\ i > p.dupAt THEN 1 ELSE 0))

\* The row of the file at line i: lines p.swapAt and p.swapAt + 1 are out of
\* chronological order, line p.badDateAt has an unparseable date, and the
\* row observed p.nanAt-th has an empty cell in column p.nanCol.
RawRow(p, i) ==
    LET k == IF p.swapAt > 0 /\ i = p.swapAt THEN i + 1
             ELSE IF p.swapAt > 0 /\ i = p.swapAt + 1 THEN i - 1 ELSE i
    IN  [date |-> IF i = p.badDateAt THEN [text |-> "bad"]
                  ELSE [text |-> "iso", iso |-> IsoFormat(InstantAt(p, k))],
         cells |-> [c \in Range(p.columns) |->
                      IF k = p.nanAt /\ c = p.nanCol THEN NaN
                      ELSE IF c = TARGET_COLUMN THEN <<TargetAt(k)>>
                      ELSE <<TargetAt(k) + 1>>]]

\* pd.read_csv: the columns and rows of the file.
ReadCsv(p) == [hasDate |-> p.hasDate, columns |-> p.columns,
               rows |-> [i \in 1..p.n |-> RawRow(p, i)]]

\* pd.to_datetime(..., errors="coerce") on one cell: NaT for unparseable text.
ToDatetime(d) == IF d.text = "iso" THEN <<FromIso(d.iso)>> ELSE NaN

\* pd.date_range(start=DEFAULT_START_DATE, periods=n, freq="h")[i - 1]
SyntheticDate(i) == <<AddHours(0, i - 1)>>

\* DataFrame.sort_values(DATE_COLUMN), equal dates in their given order
\* (see TieOrders).
SortValues(rows) ==
    SortSeq(rows, LAMBDA a, b : a.cells[DATE_COLUMN][1] < b.cells[DATE_COLUMN][1])

\* sort_values uses quicksort, which is not stable: rows of equal date may
\* come out in either order. The orders of a sorted sequence with the rows
\* of one pair of equal dates exchanged, or none.
TieOrders(rows) ==
    {rows} \cup
    { [i \in DOMAIN rows |-> IF i = k THEN rows[k + 1] ELSE IF i = k + 1 THEN rows[k] ELSE rows[i]] :
        k \in {j \in 1..(Len(rows) - 1) : rows[j].cells[DATE_COLUMN] = rows[j + 1].cells[DATE_COLUMN]} }

\* reset_index(drop=True): index labels 0..n-1 in row order.
ResetIndex(rows) == [i \in DOMAIN rows |-> [index |-> i - 1, cells |-> rows[i].cells]]

\* The rows of read_csv with the date column set, parsed, and NaT rows dropped.
DatedRows(raw) ==
    LET dated == [i \in DOMAIN raw.rows |->
                    [index |-> i - 1,
                     cells |-> (DATE_COLUMN :> (IF raw.hasDate THEN ToDatetime(raw.rows[i].date)
                                                ELSE SyntheticDate(i)))
                               @@ raw.rows[i].cells]]
    IN  SelectSeq(dated, LAMBDA r : ~IsNaN(r.cells[DATE_COLUMN]))

\* load_and_prepare_data from read_csv on: the prepared records it may return.
Prepared(p) ==
    LET raw == ReadCsv(p)
    IN  { [columns |-> <<DATE_COLUMN>> \o raw.columns, rows |-> ResetIndex(rows)] :
            rows \in TieOrders(SortValues(DatedRows(raw))) }

-----------------------------------------------------------------------------
(* Training (src/models/prophet.py, src/models/xgboost.py). *)

\* Series.unique() then sort_values(): the distinct values, ascending.
SortedUnique(s) ==
    LET sorted == SortSeq(s, LAMBDA a, b : a < b)
        marked == [i \in DOMAIN sorted |->
                     [v |-> sorted[i], first |-> i = 1 \/ sorted[i] # sorted[Max(i - 1, 1)]]]
        kept == SelectSeq(marked, LAMBDA e : e.first)
    IN  [i \in DOMAIN kept |-> kept[i].v]

\* df[[date_col, target_col]] renamed to ds, y.
ProphetDf(df) ==
    [i \in DOMAIN df.rows |->
        [ds |-> df.rows[i].cells[DATE_COLUMN][1], y |-> df.rows[i].cells[TARGET_COLUMN]]]

\* len(frame) - VALIDATION_HOURS
SplitIdx(frame) == Len(frame) - VALIDATION_HOURS

NoProphet ==
    [error |-> "not run", fits |-> <<>>, model |-> None, split_idx |-> 0,
     train_df |-> <<>>, val_df |-> <<>>, val_pred_dates |-> <<>>]

\* train_prophet(df). fits lists the fit calls made, each with the number of
\* rows it was given; val_df are the rows whose y is val_actual, and
\* val_pred_dates the instants whose predictions make val_pred.
train_prophet(df) ==
    LET prophet_df == ProphetDf(df)
        split_idx == SplitIdx(prophet_df)
        train_df == PySliceTo(prophet_df, split_idx)
        fits == <<[what |-> "Prophet", rows |-> Len(train_df)]>>
        observed == SelectSeq(train_df, LAMBDA r : ~IsNaN(r.y))
        model == [kind |-> "prophet",
                  history_dates |-> SortedUnique([i \in DOMAIN train_df |-> train_df[i].ds]),
                  slope |-> 2, offset |-> 10]
        future == MakeFutureDataframe(model, VALIDATION_HOURS)
        val_df == PySliceFrom(prophet_df, split_idx)
        val_actual == [i \in DOMAIN val_df |-> val_df[i].y]
        val_pred_dates == PySlice(future, split_idx, split_idx + Len(val_actual))
        failed == [error |-> "ValueError", fits |-> fits, model |-> None,
                   split_idx |-> split_idx, train_df |-> train_df,
                   val_df |-> val_df, val_pred_dates |-> <<>>]
    IN  IF Len(observed) < 2
        THEN \* Prophet.fit: "Dataframe has less than 2 non-NaN rows."
             failed
        ELSE IF Len(val_pred_dates) # Len(val_actual) \/ \E i \in DOMAIN val_actual : IsNaN(val_actual[i])
        THEN \* mean_absolute_error: inconsistent lengths, or NaN in the input
             [failed EXCEPT !.val_pred_dates = val_pred_dates]
        ELSE [failed EXCEPT !.error = "none", !.model = model, !.val_pred_dates = val_pred_dates]

\* The columns train_xgboost adds to the row at position i.
EngineeredCells(rows, i) ==
    LET t == rows[i].cells[DATE_COLUMN][1]
    IN  [c \in Range(TEMPORAL_FEATURES) \cup Range(LAG_NAMES) |->
            IF c = "hour" THEN <<Hour(t)>>
            ELSE IF c = "day_of_week" THEN <<Weekday(t)>>
            ELSE IF c = "month" THEN <<Month(t)>>
            ELSE LET k == CHOOSE j \in DOMAIN LAG_NAMES : LAG_NAMES[j] = c
                 IN  Shift(rows, TARGET_COLUMN, LAG_FEATURES[k], i)]

\* df_features before dropna: every row with its temporal and lag columns.
WithFeatures(df) ==
    [i \in DOMAIN df.rows |->
        [index |-> df.rows[i].index, cells |-> EngineeredCells(df.rows, i) @@ df.rows[i].cells]]

\* feature_cols: the sensor columns present, the temporal columns, the lag
\* columns, those of them that are columns of df_features.
FeatureCols(columns) ==
    LET all == Range(columns) \cup Range(TEMPORAL_FEATURES) \cup Range(LAG_NAMES)
        sensor_features_available == Filter(SENSOR_FEATURES, all)
    IN  Filter(sensor_features_available \o TEMPORAL_FEATURES \o LAG_NAMES, all)

NoXgb ==
    [error |-> "not run", fits |-> <<>>, model |-> None, scaler |-> None,
     feature_names |-> None, split_idx |-> 0, df_features |-> <<>>]

\* train_xgboost(df). df_features are the rows after dropna; X and y are
\* their feature_names columns and target, split at split_idx.
train_xgboost(df) ==
    LET df_features == DropNa(WithFeatures(df))
        feature_cols == FeatureCols(df.columns)
        split_idx == SplitIdx(df_features)
        X_train == PySliceTo(df_features, split_idx)
        result == [error |-> "none",
                   fits |-> << [what |-> "StandardScaler", rows |-> Len(X_train)],
                               [what |-> "XGBRegressor", rows |-> Len(X_train)] >>,
                   model |-> [kind |-> "xgb", bias |-> 20],
                   scaler |-> [kind |-> "scaler", mean |-> 1],
                   feature_names |-> [kind |-> "list", names |-> feature_cols],
                   split_idx |-> split_idx, df_features |-> df_features]
    IN  IF Len(X_train) = 0
        THEN \* StandardScaler.fit_transform: "Found array with 0 sample(s)"
             [result EXCEPT !.error = "ValueError", !.fits = SubSeq(result.fits, 1, 1),
                            !.model = None, !.scaler = None, !.feature_names = None]
        ELSE result

\* X_train / y_train and X_val / y_val of train_xgboost, as rows of df_features.
XgbTrainRows(r) == PySliceTo(r.df_features, r.split_idx)

XgbValRows(r) == PySliceFrom(r.df_features, r.split_idx)

-----------------------------------------------------------------------------
(* The inputs the model draws from. *)

\* Horizons a request may carry (dtos.ForecastRequest: ge=1, le=168).
Horizons == (HorizonMin..MaxHorizon) \cup {HorizonDefault, HorizonMax}

\* Starting instants: mid-hour, the minute before an hour, a day and a month end.
ClockStarts ==
    { 30, 23 * MinutesPerHour + 59, (30 * 24 + 23) * MinutesPerHour + 30 }

ClockValues == UNION { s..(s + MaxTicks) : s \in ClockStarts }

\* Artifacts as an earlier training run leaves them.
SampleXgb == [kind |-> "xgb", bias |-> 20]

SampleScaler == [kind |-> "scaler", mean |-> 1]

SampleProphet == [kind |-> "prophet", history_dates |-> <<0, 60, 120>>, slope |-> 2, offset |-> 10]

SampleSchemas ==
    { [kind |-> "list", names |-> FeatureCols(cols)] :
        cols \in { <<DATE_COLUMN, TARGET_COLUMN>>, <<DATE_COLUMN, TARGET_COLUMN, "T1", "RH_1">> } }

FileStates(objs) == {Absent, Corrupt} \cup { [state |-> "ok", run |-> "old", obj |-> o] : o \in objs }

\* The artifact stores a service may start on.
ServeStores ==
    { [f \in FileNames |->
         CASE f = "xgb_model.pkl" -> m
           [] f = "xgb_scaler.pkl" -> sc
           [] f = "feature_names.pkl" -> fn
           [] OTHER -> pm] :
        m \in FileStates({SampleXgb}), sc \in FileStates({SampleScaler}),
        fn \in FileStates(SampleSchemas), pm \in FileStates({SampleProphet}) }

EmptyStore == [f \in FileNames |-> Absent]

OldStore ==
    [f \in FileNames |->
        [state |-> "ok", run |-> "old",
         obj |-> CASE f = "xgb_model.pkl" -> SampleXgb
                   [] f = "xgb_scaler.pkl" -> SampleScaler
                   [] f = "feature_names.pkl" ->
                        [kind |-> "list", names |-> FeatureCols(<<DATE_COLUMN, TARGET_COLUMN>>)]
                   [] OTHER -> SampleProphet]]

\* Record lengths: within Slack of 0, of the largest lag, of half the
\* validation window, of the validation window, and of window plus lag.
Sizes ==
    { n \in UNION { (b - Slack)..(b + Slack) :
                      b \in {0, MaxLag, VALIDATION_HOURS \div 2, VALIDATION_HOURS,
                             MaxLag + VALIDATION_HOURS} } : n >= 0 }

\* An hourly dataset of n rows with the target and two sensor columns.
Hourly(n) ==
    [exists |-> TRUE, hasDate |-> TRUE, columns |-> <<TARGET_COLUMN, "T1", "RH_1">>,
     n |-> n, start |-> 0, step |-> MinutesPerHour, gapAt |-> 0, dupAt |-> 0,
     swapAt |-> 0, badDateAt |-> 0, nanAt |-> 0, nanCol |-> ""]

\* The datasets of n rows: hourly; sampled every 10 minutes (as the UCI file
\* is); with a gap; with a repeated instant, at the start or across the
\* validation boundary; out of order; with an unparseable date; with an
\* empty sensor or target cell; without sensor columns; with a column that
\* is no feature; without a date column.
DatasetsOf(n) ==
    { Hourly(n), [Hourly(n) EXCEPT !.step = 10],
      [Hourly(n) EXCEPT !.columns = <<TARGET_COLUMN>>],
      [Hourly(n) EXCEPT !.columns = <<TARGET_COLUMN, "T1", "rv1">>],
      [Hourly(n) EXCEPT !.hasDate = FALSE] }
    \cup (IF n >= 2
          THEN { [Hourly(n) EXCEPT !.gapAt = n \div 2],
                 [Hourly(n) EXCEPT !.dupAt = Max(n - VALIDATION_HOURS, 1)],
                 [Hourly(n) EXCEPT !.swapAt = 1],
                 [Hourly(n) EXCEPT !.badDateAt = 1],
                 [Hourly(n) EXCEPT !.nanAt = n, !.nanCol = "T1"],
                 [Hourly(n) EXCEPT !.nanAt = n - 1, !.nanCol = TARGET_COLUMN] }
          ELSE {})

RawDatasets == UNION { DatasetsOf(n) : n \in Sizes } \cup { [Hourly(0) EXCEPT !.exists = FALSE] }

NoData == [columns |-> <<>>, rows |-> <<>>]

\* No request has been answered yet.
NoHttp == [endpoint |-> "", code |-> 0, body |-> "", dispatched |-> FALSE, horizon |-> 0,
           use_xgboost |-> FALSE]

NoResponse ==
    [status |-> "none", horizon |-> 0, use_xgboost |-> FALSE,
     values |-> <<>>, timestamps |-> <<>>, model_name |-> "",
     predicted_by |-> "", raw |-> <<>>, X |-> NoFrame, now_features |-> 0, now |-> 0]

-----------------------------------------------------------------------------
(* Serving: src/api/app.py lifespan and ForecastService.forecast. *)

InitServe ==
    /\ store \in ServeStores
    /\ clock \in ClockStarts
    /\ svc = None
    /\ resp = NoResponse
    /\ csv = [Hourly(0) EXCEPT !.exists = FALSE]
    /\ data = NoData
    /\ pc = "idle"
    /\ prophet = NoProphet
    /\ xgb = NoXgb
    /\ err = "none"
    /\ http = NoHttp
    /\ again = NoData

\* Mutant of lifespan: the artifacts are loaded again whenever the store
\* has changed.
lifespan_Reload ==
    /\ svc = None \/ svc # LoadService(store)
    /\ svc' = LoadService(store)
    /\ UNCHANGED <<store, clock, resp, csv, data, pc, prophet, xgb, err, http, again>>

\* lifespan: the artifacts are loaded and the service constructed, once.
lifespan ==
    /\ svc = None
    /\ svc' = LoadService(store)
    /\ UNCHANGED <<store, clock, resp, csv, data, pc, prophet, xgb, err, http, again>>

\* ForecastService.forecast(horizon, use_xgboost): time may pass between the
\* clock read of _xgboost_forecast and the one for the timestamps.
forecast ==
    /\ svc # None
    /\ \E horizon \in Horizons, use_xgboost \in BOOLEAN, elapsed \in 0..MaxElapsed :
          /\ clock + elapsed \in ClockValues
          /\ resp' = ServiceForecast(svc, horizon, use_xgboost, clock, clock + elapsed)
          /\ clock' = clock + elapsed
    /\ UNCHANGED <<store, svc, csv, data, pc, prophet, xgb, err, http, again>>

\* Time passes.
Tick ==
    /\ clock + 1 \in ClockValues
    /\ clock' = clock + 1
    /\ UNCHANGED <<store, svc, resp, csv, data, pc, prophet, xgb, err, http, again>>

NextServe == lifespan \/ forecast \/ Tick

SpecServe == InitServe /\ [][NextServe]_vars

-----------------------------------------------------------------------------
(* Training: src/models/train.py main, one action per step. *)

InitTrain ==
    /\ store \in {EmptyStore, OldStore}
    /\ clock = 0
    /\ svc = None
    /\ resp = NoResponse
    /\ csv \in RawDatasets
    /\ data = NoData
    /\ pc = "load_data"
    /\ prophet = NoProphet
    /\ xgb = NoXgb
    /\ err = "none"
    /\ http = NoHttp
    /\ again = NoData

\* load_and_prepare_data(): FileNotFoundError if the dataset is missing.
LoadData ==
    /\ pc = "load_data"
    /\ IF csv.exists
       THEN /\ data' \in Prepared(csv)
            /\ pc' = "train_prophet"
            /\ err' = err
       ELSE /\ data' = data
            /\ pc' = "failed"
            /\ err' = "FileNotFoundError"
    /\ UNCHANGED <<store, clock, svc, resp, csv, prophet, xgb, http, again>>

\* train_prophet(...): an exception ends the run.
TrainProphet ==
    /\ pc = "train_prophet"
    /\ prophet' = train_prophet(data)
    /\ IF prophet'.error = "none"
       THEN pc' = "save_prophet" /\ err' = err
       ELSE pc' = "failed" /\ err' = prophet'.error
    /\ UNCHANGED <<store, clock, svc, resp, csv, data, xgb, http, again>>

\* train_xgboost(...): an exception ends the run.
TrainXGBoost ==
    /\ pc = "train_xgboost"
    /\ xgb' = train_xgboost(data)
    /\ IF xgb'.error = "none"
       THEN pc' = "save_xgb_model" /\ err' = err
       ELSE pc' = "failed" /\ err' = xgb'.error
    /\ UNCHANGED <<store, clock, svc, resp, csv, data, prophet, http, again>>

\* The save_pickle calls of main in order: the step, the file, the object
\* and the step that follows.
SaveSteps ==
    << [at |-> "save_prophet", file |-> "prophet_model.pkl", next |-> "train_xgboost"],
       [at |-> "save_xgb_model", file |-> "xgb_model.pkl", next |-> "save_xgb_scaler"],
       [at |-> "save_xgb_scaler", file |-> "xgb_scaler.pkl", next |-> "save_feature_names"],
       [at |-> "save_feature_names", file |-> "feature_names.pkl", next |-> "done"] >>

SavedObject(file) ==
    CASE file = "prophet_model.pkl" -> prophet.model
      [] file = "xgb_model.pkl" -> xgb.model
      [] file = "xgb_scaler.pkl" -> xgb.scaler
      [] OTHER -> xgb.feature_names

\* save_pickle(obj, filepath): the file is opened for writing and the
\* object dumped into it.
SavePickle ==
    /\ \E k \in DOMAIN SaveSteps :
          /\ pc = SaveSteps[k].at
          /\ store' = [store EXCEPT ![SaveSteps[k].file] =
                          [state |-> "ok", run |-> "new", obj |-> SavedObject(SaveSteps[k].file)]]
          /\ pc' = SaveSteps[k].next
    /\ UNCHANGED <<clock, svc, resp, csv, data, prophet, xgb, err, http, again>>

\* save_pickle failing with an IOError: before the file is opened (the file
\* is untouched), or after open(filepath, "wb") has truncated it (a partial
\* file is left). The exception ends the run.
SavePickleFails ==
    /\ \E k \in DOMAIN SaveSteps :
          /\ pc = SaveSteps[k].at
          /\ \E opened \in BOOLEAN :
                store' = IF opened THEN [store EXCEPT ![SaveSteps[k].file] = Corrupt] ELSE store
    /\ pc' = "failed"
    /\ err' = "OSError"
    /\ UNCHANGED <<clock, svc, resp, csv, data, prophet, xgb, http, again>>

NextTrain == LoadData \/ TrainProphet \/ TrainXGBoost \/ SavePickle \/ SavePickleFails

SpecTrain == InitTrain /\ [][NextTrain]_vars

-----------------------------------------------------------------------------
(* The trainers applied to every prepared record, each on its own. *)

\* train_prophet(data.dataframe, ...) called on the prepared record.
CallTrainProphet ==
    /\ pc = "train_prophet"
    /\ prophet = NoProphet
    /\ prophet' = train_prophet(data)
    /\ UNCHANGED <<store, clock, svc, resp, csv, data, pc, xgb, err, http, again>>

\* train_xgboost(data.dataframe, ...) called on the prepared record.
CallTrainXGBoost ==
    /\ pc = "train_prophet"
    /\ xgb = NoXgb
    /\ xgb' = train_xgboost(data)
    /\ UNCHANGED <<store, clock, svc, resp, csv, data, pc, prophet, err, http, again>>

NextFit == LoadData \/ CallTrainProphet \/ CallTrainXGBoost

InitFit == InitTrain /\ store = EmptyStore

SpecFit == InitFit /\ [][NextFit]_vars

-----------------------------------------------------------------------------
(* Claims about serving, checked under SpecServe. *)

Called == resp.status # "none"

Served == resp.status = "ok"

\* The position of column c in frame X.
ColumnOf(X, c) == CHOOSE j \in DOMAIN X.columns : X.columns[j] = c

\* C1: forecast never substitutes one model family for the other. A request
\* for the tree model when the tree model or the feature schema is not held
\* ends in the model-unavailable error (ValueError) and returns nothing; so
\* does a request for the seasonal model when it is not held; and a served
\* request names the requested family and carries that family's predictions.
C1_NoSubstitution ==
    Called =>
        /\ (resp.use_xgboost /\ (svc.xgb_model = None \/ svc.feature_names = None))
              => (resp.status = "ValueError" /\ resp.values = <<>> /\ resp.predicted_by = "")
        /\ (~resp.use_xgboost /\ svc.prophet_model = None)
              => (resp.status = "ValueError" /\ resp.values = <<>> /\ resp.predicted_by = "")
        /\ (Served /\ resp.use_xgboost)
              => (resp.model_name = "XGBoost" /\ resp.predicted_by = "XGBRegressor.predict")
        /\ (Served /\ ~resp.use_xgboost)
              => (resp.model_name = "Prophet" /\ resp.predicted_by = "Prophet.predict")

\* C1 witness: forecast(horizon=24, use_xgboost=true) on a service holding
\* only the seasonal model has ended in the error.
C1_Witness ==
    /\ resp.status = "ValueError" /\ resp.use_xgboost /\ resp.horizon = HorizonDefault
    /\ svc # None /\ svc.prophet_model # None
    /\ svc.xgb_model = None /\ svc.xgb_scaler = None /\ svc.feature_names = None

\* C2: a served forecast carries exactly `horizon` values and `horizon`
\* timestamps, and the k-th timestamp is the request time plus k hours.
C2_HorizonAligned ==
    Served =>
        /\ resp.horizon \in HorizonMin..HorizonMax
        /\ Len(resp.values) = resp.horizon
        /\ Len(resp.timestamps) = resp.horizon
        /\ \A k \in 1..resp.horizon :
              FromIso(resp.timestamps[k]) = resp.now + k * MinutesPerHour
        /\ \A k \in 1..(resp.horizon - 1) :
              FromIso(resp.timestamps[k + 1]) - FromIso(resp.timestamps[k]) = MinutesPerHour

\* C2 witness: a seasonal forecast over the longest horizon, asked in the
\* last hour of a month, has been served.
C2_Witness ==
    /\ Served /\ ~resp.use_xgboost /\ resp.horizon = HorizonMax
    /\ resp.timestamps[1].month # Month(resp.now)

\* C3: every value of a served forecast is >= 0 and is the raw prediction
\* clipped at 0, for both families.
C3_NonNegative ==
    Served =>
        /\ Len(resp.values) = Len(resp.raw)
        /\ \A k \in DOMAIN resp.values :
              /\ resp.values[k] >= 0
              /\ resp.values[k] = (IF resp.raw[k] > 0 THEN resp.raw[k] ELSE 0)

\* C3 witness: a forecast with raw predictions of both signs has been served.
C3_Witness ==
    /\ Served
    /\ \E k \in DOMAIN resp.raw : resp.raw[k] < 0
    /\ \E k \in DOMAIN resp.raw : resp.raw[k] > 0

\* C4 (as claimed): in the tree-model path the k-th value is predicted from a
\* feature row whose hour, day_of_week and month are those of the k-th
\* returned timestamp.
C4_FeaturesOfTargetHour ==
    (Served /\ resp.use_xgboost) =>
        \A k \in 1..resp.horizon :
            LET t == FromIso(resp.timestamps[k])
                row == resp.X.data[k]
            IN  /\ row[ColumnOf(resp.X, "hour")] = Hour(t)
                /\ row[ColumnOf(resp.X, "day_of_week")] = Weekday(t)
                /\ row[ColumnOf(resp.X, "month")] = Month(t)

\* C5: every feature row built at serve time has exactly the columns of the
\* persisted schema in the schema's order (sensor columns, then hour,
\* day_of_week, month, then the lag columns), and every column other than
\* hour, day_of_week and month holds zero.
C5_SchemaRows ==
    (Served /\ resp.use_xgboost) =>
        LET cols == resp.X.columns
            ns == Len(cols) - 6
        IN  /\ cols = svc.feature_names.names
            /\ ns >= 0
            /\ \A j \in 1..ns : \E i \in DOMAIN SENSOR_FEATURES : cols[j] = SENSOR_FEATURES[i]
            /\ SubSeq(cols, ns + 1, ns + 3) = <<"hour", "day_of_week", "month">>
            /\ SubSeq(cols, ns + 4, ns + 6) = <<"lag_1", "lag_24", "lag_168">>
            /\ Len(resp.X.data) = resp.horizon
            /\ \A k \in DOMAIN resp.X.data :
                  /\ Len(resp.X.data[k]) = Len(cols)
                  /\ \A j \in DOMAIN cols :
                        cols[j] \notin {"hour", "day_of_week", "month"} => resp.X.data[k][j] = 0

\* C5 witness: a tree-model forecast over a schema with sensor columns, at
\* an hour other than 0, has been served.
C5_Witness ==
    /\ Served /\ resp.use_xgboost /\ resp.horizon = HorizonMax
    /\ resp.X.columns[1] = "T1"
    /\ resp.X.data[1][ColumnOf(resp.X, "hour")] # 0

-----------------------------------------------------------------------------
(* Claims about the trainers, checked under SpecFit, and about the         *)
(* training run, checked under SpecTrain.                                  *)

ProphetCalled == prophet.error # "not run"

XgbCalled == xgb.error # "not run"

\* Every instant of `later` is greater than every instant of `earlier`.
AllAfter(later, earlier) ==
    \A i \in DOMAIN later : \A j \in DOMAIN earlier : later[i] > earlier[j]

\* The instants of rows of prophet_df, and of rows of df_features.
DsOf(rows) == [i \in DOMAIN rows |-> rows[i].ds]

DatesOf(rows) == [i \in DOMAIN rows |-> rows[i].cells[DATE_COLUMN][1]]

\* The split claimed for a frame of n rows with `val` held out of `train`:
\* 720 validation rows when n >= 720, all n rows when n < 720.
ClaimedSplit(n, train, val) ==
    /\ n >= VALIDATION_HOURS => Len(val) = VALIDATION_HOURS
    /\ n < VALIDATION_HOURS => Len(val) = n
    /\ Len(train) + Len(val) = n

\* C6 (as claimed): for every number of rows given to either trainer the
\* validation partition has exactly 720 rows, or all rows when there are
\* fewer than 720, and every validation timestamp is greater than every
\* training timestamp.
C6_ChronologicalSplit ==
    /\ ProphetCalled =>
          /\ ClaimedSplit(Len(data.rows), prophet.train_df, prophet.val_df)
          /\ AllAfter(DsOf(prophet.val_df), DsOf(prophet.train_df))
    /\ XgbCalled =>
          /\ ClaimedSplit(Len(xgb.df_features), XgbTrainRows(xgb), XgbValRows(xgb))
          /\ AllAfter(DatesOf(XgbValRows(xgb)), DatesOf(XgbTrainRows(xgb)))

\* C7 (as claimed): whenever the engineered feature set has zero rows after
\* lag-dropping, train_xgboost ends in an InsufficientData error before any
\* fit is attempted and returns no model, scaler or schema.
C7_InsufficientData ==
    (XgbCalled /\ Len(xgb.df_features) = 0) =>
        /\ xgb.error = "InsufficientData"
        /\ xgb.fits = <<>>
        /\ xgb.model = None /\ xgb.scaler = None /\ xgb.feature_names = None

\* The training run has ended, and not on a failed write.
RunEnded == pc \in {"failed", "done"} /\ err # "OSError"

\* C8 (as claimed): for a record too short to produce any fully-lagged
\* feature row, seasonal training in the same run fits on a non-empty
\* training partition and completes, its artifact is persisted, and only
\* the tree-model step fails.
C8_SeasonalUnaffected ==
    (RunEnded /\ csv.exists /\ Len(data.rows) <= MaxLag) =>
        /\ prophet.error = "none"
        /\ Len(prophet.train_df) > 0
        /\ store["prophet_model.pkl"].state = "ok"
        /\ store["prophet_model.pkl"].run = "new"
        /\ xgb.error \notin {"not run", "none"}

\* C9 (as claimed): for every lag in {1, 24, 168}, the lag feature of each
\* emitted training row equals the target observed exactly `lag` hours
\* before that row's timestamp in the same record.
C9_LagInHours ==
    XgbCalled =>
        \A i \in DOMAIN xgb.df_features : \A k \in DOMAIN LAG_FEATURES :
            LET r == xgb.df_features[i]
                t == r.cells[DATE_COLUMN][1] - LAG_FEATURES[k] * MinutesPerHour
            IN  \E j \in DOMAIN data.rows :
                    /\ data.rows[j].cells[DATE_COLUMN][1] = t
                    /\ data.rows[j].cells[TARGET_COLUMN] = r.cells[LAG_NAMES[k]]

\* No emitted row has a lag feature that refers to an index before the
\* start of the record: each sits more than 168 rows in, and its lag
\* features are the (observed) targets that many rows earlier.
NoNegativeLookups ==
    \A i \in DOMAIN xgb.df_features :
        LET r == xgb.df_features[i]
        IN  /\ r.index >= 168
            /\ \A k \in DOMAIN LAG_FEATURES :
                  /\ r.index + 1 - LAG_FEATURES[k] >= 1
                  /\ r.cells[LAG_NAMES[k]] # NaN
                  /\ r.cells[LAG_NAMES[k]] =
                        data.rows[r.index + 1 - LAG_FEATURES[k]].cells[TARGET_COLUMN]

\* The record holds no missing value.
NoMissing == \A i \in DOMAIN data.rows : \A c \in DOMAIN data.rows[i].cells : data.rows[i].cells[c] # NaN

-----------------------------------------------------------------------------
(* Preparation on its own: load_and_prepare_data, and its standardisation  *)
(* steps (data_loader.py lines 54-56) applied to the record it returned.   *)

\* pd.to_datetime(..., errors="coerce") on a column that already holds
\* datetimes: every value is kept, NaT stays NaT.
ToDatetimeParsed(cell) == cell

\* Lines 54-56 on a prepared record: the records they may return.
PreparedAgain(df) ==
    LET parsed == [i \in DOMAIN df.rows |->
                     [df.rows[i] EXCEPT !.cells[DATE_COLUMN] = ToDatetimeParsed(@)]]
        kept == SelectSeq(parsed, LAMBDA r : ~IsNaN(r.cells[DATE_COLUMN]))
    IN  { [columns |-> df.columns, rows |-> ResetIndex(rows)] :
            rows \in TieOrders(SortValues(kept)) }

\* The standardisation steps applied to the record load_and_prepare_data
\* returned.
PrepareAgain ==
    /\ pc = "train_prophet"
    /\ again = NoData
    /\ again' \in PreparedAgain(data)
    /\ pc' = "prepared_again"
    /\ UNCHANGED <<store, clock, svc, resp, csv, data, prophet, xgb, err, http>>

NextPrep == LoadData \/ PrepareAgain

SpecPrep == InitFit /\ [][NextPrep]_vars

-----------------------------------------------------------------------------
(* Claims about preparation, checked under SpecPrep. *)

\* load_and_prepare_data has returned a record.
Loaded == pc \in {"train_prophet", "prepared_again"}

\* C11 (as claimed): the record returned by load_and_prepare_data holds no
\* null timestamp and no two rows with the same timestamp.
C11_NoDuplicateTimestamps ==
    Loaded =>
        /\ \A i \in DOMAIN data.rows : ~IsNaN(data.rows[i].cells[DATE_COLUMN])
        /\ \A i, j \in DOMAIN data.rows :
              i # j => data.rows[i].cells[DATE_COLUMN] # data.rows[j].cells[DATE_COLUMN]

\* C12 (as claimed): the prepared record is sorted by timestamp ascending
\* and holds no null timestamp, and preparing it again returns the same
\* rows in the same order.
C12_SortedIdempotent ==
    /\ Loaded =>
          /\ \A i \in DOMAIN data.rows : ~IsNaN(data.rows[i].cells[DATE_COLUMN])
          /\ \A i \in 1..(Len(data.rows) - 1) :
                data.rows[i].cells[DATE_COLUMN][1] <= data.rows[i + 1].cells[DATE_COLUMN][1]
          /\ \A i \in DOMAIN data.rows : data.rows[i].index = i - 1
    /\ pc = "prepared_again" => again = data

-----------------------------------------------------------------------------
(* Claims about startup, checked under SpecServe (the store is not written *)
(* while serving, so `store` is the store the service started on).         *)

\* The artifact the service holds for file f.
HeldAs(f) ==
    CASE f = "xgb_model.pkl" -> svc.xgb_model
      [] f = "xgb_scaler.pkl" -> svc.xgb_scaler
      [] f = "feature_names.pkl" -> svc.feature_names
      [] OTHER -> svc.prophet_model

\* C13: startup never raises on a missing or corrupt artifact. Whatever
\* subset of the four files is missing or fails to deserialize, startup can
\* complete, and once it has, each such artifact is held as None and every
\* other artifact is held as stored.
C13_LoadTolerant ==
    /\ svc = None => ENABLED lifespan
    /\ svc # None =>
          \A f \in FileNames :
              /\ store[f].state \in {"absent", "corrupt"} => HeldAs(f) = None
              /\ store[f].state = "ok" => HeldAs(f) = store[f].obj

\* C13 witness: startup has completed on a store with a corrupt tree model,
\* a missing scaler, and a valid schema and seasonal model.
C13_Witness ==
    /\ svc # None
    /\ store["xgb_model.pkl"].state = "corrupt" /\ svc.xgb_model = None
    /\ store["xgb_scaler.pkl"].state = "absent" /\ svc.xgb_scaler = None
    /\ store["feature_names.pkl"].state = "ok" /\ svc.feature_names # None
    /\ store["prophet_model.pkl"].state = "ok" /\ svc.prophet_model # None

-----------------------------------------------------------------------------
(* Claims about the artifact store, checked under SpecTrain. *)

\* A save_pickle call has just failed.
SaveFailed == err # "OSError" /\ err' = "OSError"

\* C14 (as claimed): saves are atomic. Across every step of a training run
\* and for every artifact name, a load after the step returns the artifact a
\* load returned before it, the complete new artifact, or None; and a save
\* that fails leaves every name loading what it loaded before.
C14_AtomicSave ==
    [][\A f \in FileNames :
          LET before == load_model_from_pickle(store[f])
              after == load_model_from_pickle(store'[f])
          IN  /\ after \in {before, SavedObject(f), None}
              /\ SaveFailed => after = before]_vars

\* The files of the tree-model family.
XgbFiles == {"xgb_model.pkl", "xgb_scaler.pkl", "feature_names.pkl"}

\* C20 (as claimed): in every state of the store, whether a training run
\* has completed, failed or stopped part-way, the tree model, scaler and
\* schema present in the store were all written by the same training run.
C20_SameRun ==
    \A f, g \in XgbFiles :
        (store[f].state = "ok" /\ store[g].state = "ok") => store[f].run = store[g].run

-----------------------------------------------------------------------------
(* The request layer (src/api/app.py, src/api/dtos.py). *)

\* Horizons a request body may carry: the valid ones and the two nearest
\* values outside Field(ge=1, le=168).
RequestHorizons == Horizons \cup {HorizonMin - 1, HorizonMax + 1}

\* ForecastRequest validation: FastAPI answers a body that fails it with
\* 422 Unprocessable Entity, before the endpoint function is called.
ValidRequest(horizon) == horizon >= HorizonMin /\ horizon <= HorizonMax

\* The answer of POST /forecast and the service call it made, if any.
\* dispatched: forecast_service.forecast was called.
AppForecast(fs, last, horizon, use_xgboost, now1, now2) ==
    LET answer(code, text, called) ==
            [endpoint |-> "POST /forecast", code |-> code, body |-> text,
             dispatched |-> called, horizon |-> horizon, use_xgboost |-> use_xgboost]
    IN  IF ~ValidRequest(horizon)
        THEN [http |-> answer(422, "validation error", FALSE), resp |-> last]
        ELSE IF ~Truthy(fs)
        THEN [http |-> answer(503, "Forecast service not initialized", FALSE), resp |-> last]
        ELSE LET r == ServiceForecast(fs, horizon, use_xgboost, now1, now2)
             IN  IF r.status = "ValueError"
                 THEN [http |-> answer(503, "model not available", TRUE), resp |-> r]
                 ELSE [http |-> answer(200, "ForecastResponse", TRUE), resp |-> r]

\* The "status" field of GET /.
RootStatus(fs) == IF Truthy(fs) THEN "ready" ELSE "models_not_loaded"

\* POST /forecast, served once startup has completed.
PostForecast ==
    /\ svc # None
    /\ \E horizon \in RequestHorizons, use_xgboost \in BOOLEAN, elapsed \in 0..MaxElapsed :
          /\ clock + elapsed \in ClockValues
          /\ LET out == AppForecast(svc, resp, horizon, use_xgboost, clock, clock + elapsed)
             IN  http' = out.http /\ resp' = out.resp
          /\ clock' = clock + elapsed
    /\ UNCHANGED <<store, svc, csv, data, pc, prophet, xgb, err, again>>

\* GET /, served once startup has completed.
GetRoot ==
    /\ svc # None
    /\ http' = [endpoint |-> "GET /", code |-> 200, body |-> RootStatus(svc),
                dispatched |-> FALSE, horizon |-> 0, use_xgboost |-> FALSE]
    /\ UNCHANGED <<store, clock, svc, resp, csv, data, pc, prophet, xgb, err, again>>

NextApp == lifespan \/ PostForecast \/ GetRoot \/ Tick

\* The request layer starts on any store, at the first starting instant.
InitApp == InitServe /\ \A c \in ClockStarts : clock <= c

SpecApp == InitApp /\ [][NextApp]_vars

-----------------------------------------------------------------------------
(* Claims about the request layer, checked under SpecApp. *)

\* The model family a request asks for is not available in the service.
FamilyUnavailable(use_xgboost) ==
    IF use_xgboost THEN ~Truthy(svc.xgb_model) \/ ~Truthy(svc.feature_names)
    ELSE ~Truthy(svc.prophet_model)

\* C15 (as claimed): a valid forecast request for an unavailable model
\* family is answered 503 (service unavailable), and a request whose
\* horizon is outside 1..168 is answered 400 (bad request) without
\* ForecastService.forecast being called.
C15_ErrorSurface ==
    http.endpoint = "POST /forecast" =>
        /\ (ValidRequest(http.horizon) /\ FamilyUnavailable(http.use_xgboost))
              => (http.code = 503 /\ resp.status = "ValueError")
        /\ ~ValidRequest(http.horizon) => (http.code = 400 /\ ~http.dispatched)

\* C18 (as claimed): the request layer reports "ready", or dispatches a
\* forecast request to the service, only if at least one model was loaded.
C18_ReadyOnlyWithModel ==
    LET loaded == svc # None /\ (Truthy(svc.xgb_model) \/ Truthy(svc.prophet_model))
    IN  /\ (http.endpoint = "GET /" /\ http.body = "ready") => loaded
        /\ (http.endpoint = "POST /forecast" /\ http.dispatched) => loaded

-----------------------------------------------------------------------------
(* Claims about seasonal training, checked under SpecFit. *)

\* train_prophet got past Prophet.fit: the predictions for the metrics were
\* taken.
ProphetFitted ==
    ProphetCalled /\ Len(SelectSeq(prophet.train_df, LAMBDA r : ~IsNaN(r.y))) >= 2

\* C16 (as claimed): the predictions used for MAE/RMSE are as many as the
\* held-out rows, and the i-th prediction is the model's prediction for the
\* timestamp of the i-th held-out row.
C16_ValidationAligned ==
    ProphetFitted =>
        /\ Len(prophet.val_pred_dates) = Len(prophet.val_df)
        /\ \A i \in DOMAIN prophet.val_pred_dates :
              i \in DOMAIN prophet.val_df => prophet.val_pred_dates[i] = prophet.val_df[i].ds

-----------------------------------------------------------------------------
(* A serving process next to a training run: the service starts at any     *)
(* point before, during or after python -m src.models.train, on the store  *)
(* as it is then, and answers requests while the run goes on.              *)

\* The datasets of the run: too short for either trainer, and long enough
\* for both.
LiveDatasets == { Hourly(MaxLag), Hourly(VALIDATION_HOURS + 2) }

\* The run starts over an earlier run's artifacts.
InitLive ==
    /\ store = OldStore
    /\ clock \in ClockStarts /\ \A c \in ClockStarts : clock <= c
    /\ svc = None
    /\ resp = NoResponse
    /\ csv \in LiveDatasets
    /\ data = NoData
    /\ pc = "load_data"
    /\ prophet = NoProphet
    /\ xgb = NoXgb
    /\ err = "none"
    /\ http = NoHttp
    /\ again = NoData

NextLive ==
    \/ lifespan \/ forecast \/ Tick
    \/ LoadData \/ TrainProphet \/ TrainXGBoost \/ SavePickle \/ SavePickleFails

SpecLive == InitLive /\ [][NextLive]_vars

-----------------------------------------------------------------------------
(* Claims about the service next to a training run, checked under SpecLive. *)

\* C17: once startup has completed, no step changes the artifacts the
\* service holds: not a forecast request, served or failed, and not a step
\* of a training run that writes the store.
C17_ArtifactsReadOnly == [][svc # None => svc' = svc]_vars

\* C17 witness: a service that started before a training run completed has
\* served a request after it, holding artifacts other than the store's.
C17_Witness ==
    /\ svc # None /\ pc = "done" /\ Served
    /\ svc # LoadService(store)

\* The seasonal model in the store was written by this training run.
NewProphetStored ==
    store["prophet_model.pkl"].state = "ok" /\ store["prophet_model.pkl"].run = "new"

\* The values of a served seasonal forecast are the clipped predictions for
\* the `horizon` hourly steps after the last timestamp the model was fitted
\* on, and its timestamps are now+1h..now+horizon h.
SeasonalWindow ==
    (Served /\ ~resp.use_xgboost) =>
        LET m == svc.prophet_model
            last == m.history_dates[Len(m.history_dates)]
        IN  /\ resp.values =
                  [k \in 1..resp.horizon |-> Max(ProphetYhat(m, last + k * MinutesPerHour), 0)]
            /\ \A k \in 1..resp.horizon :
                  FromIso(resp.timestamps[k]) = resp.now + k * MinutesPerHour

\* A persisted seasonal model was fitted on the rows before the last 720:
\* its last timestamp is that of the row just before the validation window.
FittedBeforeWindow ==
    NewProphetStored =>
        LET h == store["prophet_model.pkl"].obj.history_dates
            n == Len(data.rows)
        IN  /\ n > VALIDATION_HOURS
            /\ h[Len(h)] = data.rows[n - VALIDATION_HOURS].cells[DATE_COLUMN][1]
            /\ Len(prophet.train_df) = n - VALIDATION_HOURS
            /\ \A i \in 1..(n - VALIDATION_HOURS) :
                  data.rows[i].cells[DATE_COLUMN][1] <= h[Len(h)]

=============================================================================
